---------------------------- MODULE Spec2Model ----------------------------
(***************************************************************************)
(* Model of crates/goose/src/model.rs: ModelConfig, its construction from  *)
(* the process environment and the static pattern table, and its builder   *)
(* overlays.                                                               *)
(*                                                                         *)
(* Encoding.  A Rust String is a sequence of one-character strings, so     *)
(* that parsing, lower-casing and substring search are computed character  *)
(* by character.  Option<T> is a sequence of length at most one: None is   *)
(* << >> and Some(v) is << v >>.  An f32 obtained from decimal text is the *)
(* exact decimal it denotes, normalised to m * 10^e with m not divisible   *)
(* by ten; this identifies exactly the texts that parse to the same f32    *)
(* as long as they carry at most six significant digits, which all the     *)
(* bounded inputs below do.  usize is 64 bits wide.                        *)
(***************************************************************************)
EXTENDS Integers, Sequences, FiniteSets, TLC

VARIABLES env, table, cfg, last, ret, since, first

vars == <<env, table, cfg, last, ret, since, first>>

None == << >>
Some(v) == << v >>
IsSome(o) == o # << >>
Unwrap(o) == o[1]

MinOf(a, b) == IF a < b THEN a ELSE b
Prefix(seq, n) == {seq[i] : i \in 1..MinOf(n, Len(seq))}
SetMin(S) == CHOOSE x \in S : \A y \in S : x <= y

-----------------------------------------------------------------------------
(* Bounds of the model.                                                    *)

\* how many of ModelNames are constructed
NumNames == 6
\* how many of ContextLimitTexts the two context-limit variables may hold
NumCtxValues == 5
\* how many of ToolshimTexts GOOSE_TOOLSHIM may hold
NumToolshimValues == 6
\* how many of TemperatureTexts GOOSE_TEMPERATURE may hold
NumTempValues == 4
\* iteration orders of the table: rotations 0..MaxRotation of the insertion
\* order and of its reverse
MaxRotation == 0

-----------------------------------------------------------------------------
(* Text helpers: str::parse::<usize>, str::parse::<f32>, to_lowercase,     *)
(* str::contains.                                                          *)

Digits == <<"0", "1", "2", "3", "4", "5", "6", "7", "8", "9">>
IsDigit(c) == \E i \in 1..10 : Digits[i] = c
DigitValue(c) == (CHOOSE i \in 1..10 : Digits[i] = c) - 1
AllDigits(s) == \A i \in 1..Len(s) : IsDigit(s[i])

RECURSIVE DigitsValue(_)
DigitsValue(ds) ==
    IF ds = << >> THEN 0
    ELSE DigitsValue(SubSeq(ds, 1, Len(ds) - 1)) * 10 + DigitValue(ds[Len(ds)])

RECURSIVE StripZeros(_)
StripZeros(ds) ==
    IF ds # << >> /\ Head(ds) = "0" THEN StripZeros(Tail(ds)) ELSE ds

\* usize::MAX = 2^64 - 1, as decimal text
UsizeMaxText == <<"1", "8", "4", "4", "6", "7", "4", "4", "0", "7", "3", "7", "0", "9", "5", "5", "1", "6", "1", "5">>

\* a and b are digit texts of equal length: a denotes the larger number
DigitsGreater(a, b) ==
    \E i \in 1..Len(a) :
        /\ DigitValue(a[i]) > DigitValue(b[i])
        /\ \A j \in 1..(i - 1) : a[j] = b[j]

\* the checked multiply-and-add of usize::from_str overflows on ds
UsizeOverflows(ds) ==
    LET t == StripZeros(ds) IN
    \/ Len(t) > Len(UsizeMaxText)
    \/ Len(t) = Len(UsizeMaxText) /\ DigitsGreater(t, UsizeMaxText)

\* a plausible slip: an unparseable text counts as zero (unwrap_or_default)
ParseUsizeOrZero(s) ==
    LET digits == IF s # << >> /\ Head(s) = "+" THEN Tail(s) ELSE s IN
    IF digits = << >> \/ ~AllDigits(digits) \/ UsizeOverflows(digits)
    THEN Some(0)
    ELSE Some(DigitsValue(digits))

\* limit_str.parse::<usize>().ok(): an optional "+", then one or more decimal
\* digits, the value fitting 64 bits; no "-", no blanks, not empty
ParseUsize(s) ==
    IF s = << >> THEN None
    ELSE LET digits == IF Head(s) = "+" THEN Tail(s) ELSE s IN
         IF digits = << >> THEN None
         ELSE IF ~AllDigits(digits) THEN None
         ELSE IF UsizeOverflows(digits) THEN None
         ELSE Some(DigitsValue(digits))

UpperCase == <<"A", "B", "C", "D", "E", "F", "G", "H", "I", "J", "K", "L", "M", "N", "O", "P", "Q", "R", "S", "T", "U", "V", "W", "X", "Y", "Z">>
LowerCase == <<"a", "b", "c", "d", "e", "f", "g", "h", "i", "j", "k", "l", "m", "n", "o", "p", "q", "r", "s", "t", "u", "v", "w", "x", "y", "z">>
LowerChar(c) ==
    IF \E i \in 1..26 : UpperCase[i] = c
    THEN LowerCase[CHOOSE i \in 1..26 : UpperCase[i] = c]
    ELSE c
ToLowercase(s) == [i \in 1..Len(s) |-> LowerChar(s[i])]

\* index of the first element of s in the set cs, 0 when there is none
FirstIndex(s, cs) ==
    IF \E i \in 1..Len(s) : s[i] \in cs
    THEN SetMin({i \in 1..Len(s) : s[i] \in cs})
    ELSE 0

RECURSIVE Normalize(_, _)
Normalize(m, e) ==
    IF m = 0 THEN [kind |-> "num", m |-> 0, e |-> 0]
    ELSE IF m % 10 = 0 THEN Normalize(m \div 10, e + 1)
    ELSE [kind |-> "num", m |-> m, e |-> e]

\* the f32 nearest to m * 10^e
F32(m, e) == Normalize(m, e)
NaN == [kind |-> "nan", m |-> 0, e |-> 0]
Infinity(negative) == [kind |-> "inf", m |-> IF negative THEN -1 ELSE 1, e |-> 0]

\* val.parse::<f32>().ok(): [sign] (nan | inf | infinity), any case, or
\* [sign] digits [. digits] [(e|E) [sign] digits] with a digit in the mantissa
ParseF32(s) ==
    IF s = << >> THEN None
    ELSE
    LET negative == Head(s) = "-"
        rest == IF Head(s) \in {"+", "-"} THEN Tail(s) ELSE s
        low == ToLowercase(rest)
        epos == FirstIndex(rest, {"e", "E"})
        mant == IF epos = 0 THEN rest ELSE SubSeq(rest, 1, epos - 1)
        expo == IF epos = 0 THEN << >> ELSE SubSeq(rest, epos + 1, Len(rest))
        dpos == FirstIndex(mant, {"."})
        ip == IF dpos = 0 THEN mant ELSE SubSeq(mant, 1, dpos - 1)
        fp == IF dpos = 0 THEN << >> ELSE SubSeq(mant, dpos + 1, Len(mant))
        eneg == expo # << >> /\ Head(expo) = "-"
        edigits == IF expo # << >> /\ Head(expo) \in {"+", "-"}
                   THEN Tail(expo) ELSE expo
        mantOk == AllDigits(ip) /\ AllDigits(fp) /\ Len(ip) + Len(fp) >= 1
        expOk == epos = 0 \/ (edigits # << >> /\ AllDigits(edigits))
        ev == IF epos = 0 THEN 0
              ELSE IF eneg THEN 0 - DigitsValue(edigits) ELSE DigitsValue(edigits)
        mv == DigitsValue(ip \o fp)
    IN  IF rest = << >> THEN None
        ELSE IF mantOk /\ expOk
        THEN Some(F32(IF negative THEN 0 - mv ELSE mv, ev - Len(fp)))
        ELSE IF low = <<"n", "a", "n">> THEN Some(NaN)
        ELSE IF low \in {<<"i", "n", "f">>, <<"i", "n", "f", "i", "n", "i", "t", "y">>} THEN Some(Infinity(negative))
        ELSE None

\* model_name.contains(pattern)
Contains(s, pattern) ==
    \E i \in 0..(Len(s) - Len(pattern)) :
        SubSeq(s, i + 1, i + Len(pattern)) = pattern

-----------------------------------------------------------------------------
(* The pattern table.                                                      *)

DEFAULT_CONTEXT_LIMIT == 128000

Entry(p, l) == [pattern |-> p, limit |-> l]

\* the entries, in the order the initialiser inserts them
MODEL_SPECIFIC_LIMITS ==
    << Entry(<<"g", "p", "t", "-", "4", "o">>, 128000),
       Entry(<<"g", "p", "t", "-", "4", "-", "t", "u", "r", "b", "o">>, 128000),
       Entry(<<"o", "3">>, 200000),
       Entry(<<"o", "3", "-", "m", "i", "n", "i">>, 200000),
       Entry(<<"o", "4", "-", "m", "i", "n", "i">>, 200000),
       Entry(<<"g", "p", "t", "-", "4", ".", "1">>, 1000000),
       Entry(<<"g", "p", "t", "-", "4", "-", "1">>, 1000000),
       Entry(<<"c", "l", "a", "u", "d", "e">>, 200000),
       Entry(<<"g", "e", "m", "i", "n", "i", "-", "2", ".", "5">>, 1000000),
       Entry(<<"g", "e", "m", "i", "n", "i", "-", "2", "-", "5">>, 1000000),
       Entry(<<"l", "l", "a", "m", "a", "3", ".", "2">>, 128000),
       Entry(<<"l", "l", "a", "m", "a", "3", ".", "3">>, 128000),
       Entry(<<"g", "r", "o", "k">>, 131072),
       Entry(<<"g", "e", "m", "m", "a", "2", "-", "9", "b">>, 8192),
       Entry(<<"k", "i", "m", "i", "-", "k", "2">>, 131072),
       Entry(<<"q", "w", "e", "n", "3", "-", "3", "2", "b">>, 131072),
       Entry(<<"g", "r", "o", "k", "-", "3">>, 131072),
       Entry(<<"g", "r", "o", "k", "-", "4">>, 256000),
       Entry(<<"q", "w", "e", "n", "3", "-", "c", "o", "d", "e", "r">>, 262144) >>

Reverse(seq) == [i \in 1..Len(seq) |-> seq[Len(seq) + 1 - i]]
Rotation(seq, k) == [i \in 1..Len(seq) |-> seq[((i - 1 + k) % Len(seq)) + 1]]

\* HashMap iterates in an order fixed by the hasher's random keys: any
\* permutation of the entries.  The orders explored put either of two
\* entries before the other.
IterationOrders ==
    UNION {{Rotation(MODEL_SPECIFIC_LIMITS, k),
            Rotation(Reverse(MODEL_SPECIFIC_LIMITS), k)} : k \in 0..MaxRotation}


-----------------------------------------------------------------------------
(* Inputs: environment variables and the texts they may hold, model names. *)

LEAD_VAR == "GOOSE_LEAD_CONTEXT_LIMIT"
CONTEXT_VAR == "GOOSE_CONTEXT_LIMIT"
TOOLSHIM_VAR == "GOOSE_TOOLSHIM"
TOOLSHIM_MODEL_VAR == "GOOSE_TOOLSHIM_OLLAMA_MODEL"
TEMPERATURE_VAR == "GOOSE_TEMPERATURE"

ContextVars == {LEAD_VAR, CONTEXT_VAR}
SecondaryVars == {TOOLSHIM_VAR, TOOLSHIM_MODEL_VAR, TEMPERATURE_VAR}
EnvVars == ContextVars \cup SecondaryVars

ContextLimitTexts ==
    << <<"3", "0", "0", "0", "0", "0">>, <<"2", "5", "0", "0", "0", "0">>, <<"i", "n", "v", "a", "l", "i", "d">>, <<"0">>, <<>>,
       <<"9", "9", "9", "9", "9", "9", "9", "9", "9", "9", "9", "9", "9", "9", "9", "9", "9", "9", "9", "9">>, <<"+", "7">>, <<"-", "1">>, <<" ", "5">> >>
ToolshimTexts ==
    << <<"1">>, <<"t", "r", "u", "e">>, <<"T", "R", "U", "E">>, <<"0">>, <<"y", "e", "s">>, <<>>, <<"T", "r", "u", "e">>, <<"t", "r", "u">>, <<"1", "1">> >>
TemperatureTexts ==
    << <<"0", ".", "1", "2", "8">>, <<"n", "o", "t", "a", "n", "u", "m">>, <<>>, <<".", "5">>, <<"5", "e", "-", "1">>, <<"n", "a", "n">>, <<"1", ".">>, <<".">> >>
ToolshimModelTexts == << <<"q", "w", "e", "n">> >>

EnvTexts(name) ==
    IF name \in ContextVars THEN Prefix(ContextLimitTexts, NumCtxValues)
    ELSE IF name = TOOLSHIM_VAR THEN Prefix(ToolshimTexts, NumToolshimValues)
    ELSE IF name = TEMPERATURE_VAR THEN Prefix(TemperatureTexts, NumTempValues)
    ELSE Prefix(ToolshimModelTexts, 1)

ModelNames ==
    << <<"t", "e", "s", "t", "-", "m", "o", "d", "e", "l">>, <<"g", "r", "o", "k", "-", "4">>, <<"c", "l", "a", "u", "d", "e", "-", "3", "-", "o", "p", "u", "s">>, <<>>, <<"o", "3", "-", "m", "i", "n", "i">>,
       <<"C", "l", "a", "u", "d", "e">>, <<"c", "l", "a", "u", "d", "e", "-", "g", "p", "t", "-", "4", "o">>, <<"g", "p", "t", "-", "4", "-", "t", "u", "r", "b", "o">>, <<"u", "n", "k", "n", "o", "w", "n", "-", "m", "o", "d", "e", "l">> >>
Names == Prefix(ModelNames, NumNames)

-----------------------------------------------------------------------------
(* ModelConfig: construction, overlays, accessor.                          *)

\* std::env::var(name).ok() in the environment e
EnvVar(e, name) == e[name]

\* the table is re-initialised, in a fresh iteration order, on every access
DerefReinit(tbl) == IterationOrders

\* Lazy deref of MODEL_SPECIFIC_LIMITS, as the set of maps the access may see:
\* the first access runs the initialiser and the map comes up in any iteration
\* order, later accesses see the map the first one made
Deref(tbl) == IF IsSome(tbl) THEN {Unwrap(tbl)} ELSE IterationOrders

\* indices of the entries of map whose pattern model_name contains
Hits(model_name, map) ==
    {i \in 1..Len(map) : Contains(model_name, map[i].pattern)}

\* the scan does not return at the first hit: the last one wins
GetModelSpecificLimitLast(model_name, map) ==
    LET hits == Hits(model_name, map) IN
    IF hits = {} THEN None
    ELSE Some(map[CHOOSE i \in hits : \A j \in hits : j <= i].limit)

\* the default is stored when nothing matches
GetModelSpecificLimitOrDefault(model_name, map) ==
    LET hits == Hits(model_name, map) IN
    IF hits = {} THEN Some(DEFAULT_CONTEXT_LIMIT)
    ELSE Some(map[SetMin(hits)].limit)

GetModelSpecificLimit(model_name, map) ==
    LET hits == Hits(model_name, map) IN
    IF hits = {} THEN None
    ELSE Some(map[SetMin(hits)].limit)

\* std::env::var(name) parsed as usize; None when unset or unparseable
EnvUsize(e, name) ==
    IF IsSome(EnvVar(e, name)) THEN ParseUsize(Unwrap(EnvVar(e, name))) ELSE None

\* the default variable is consulted before the custom one
GetContextLimitDefaultFirst(model_name, custom_env_var, e, tbl, map) ==
    LET custom == IF IsSome(custom_env_var)
                  THEN EnvUsize(e, Unwrap(custom_env_var)) ELSE None
        dflt == EnvUsize(e, CONTEXT_VAR)
    IN  IF IsSome(dflt) THEN [limit |-> dflt, table |-> tbl]
        ELSE IF IsSome(custom) THEN [limit |-> custom, table |-> tbl]
        ELSE [limit |-> GetModelSpecificLimit(model_name, map), table |-> Some(map)]

\* a custom variable that is set but unparseable ends the chain
GetContextLimitStopOnBadCustom(model_name, custom_env_var, e, tbl, map) ==
    LET custom == IF IsSome(custom_env_var)
                  THEN EnvUsize(e, Unwrap(custom_env_var)) ELSE None
        dflt == EnvUsize(e, CONTEXT_VAR)
    IN  IF IsSome(custom) THEN [limit |-> custom, table |-> tbl]
        ELSE IF IsSome(custom_env_var) /\ IsSome(EnvVar(e, Unwrap(custom_env_var)))
        THEN [limit |-> None, table |-> tbl]
        ELSE IF IsSome(dflt) THEN [limit |-> dflt, table |-> tbl]
        ELSE [limit |-> GetModelSpecificLimit(model_name, map), table |-> Some(map)]

\* returns the resolved limit and the state of the lazy table afterwards: the
\* table is touched only when neither variable yields a number, and map is
\* what its deref then yields
GetContextLimitWithEnvOverride(model_name, custom_env_var, e, tbl, map) ==
    LET custom == IF IsSome(custom_env_var)
                  THEN EnvUsize(e, Unwrap(custom_env_var)) ELSE None
        dflt == EnvUsize(e, CONTEXT_VAR)
    IN  IF IsSome(custom) THEN [limit |-> custom, table |-> tbl]
        ELSE IF IsSome(dflt) THEN [limit |-> dflt, table |-> tbl]
        ELSE [limit |-> GetModelSpecificLimit(model_name, map), table |-> Some(map)]

\* the comparison is made without lower-casing
ToolshimFlagExact(e) ==
    /\ IsSome(EnvVar(e, TOOLSHIM_VAR))
    /\ Unwrap(EnvVar(e, TOOLSHIM_VAR)) \in {<<"1">>, <<"t", "r", "u", "e">>}

\* env::var("GOOSE_TOOLSHIM").map(|val| val == "1" || val.to_lowercase() == "true")
\*     .unwrap_or(false)
ToolshimFlag(e) ==
    /\ IsSome(EnvVar(e, TOOLSHIM_VAR))
    /\ \/ Unwrap(EnvVar(e, TOOLSHIM_VAR)) = <<"1">>
       \/ ToLowercase(Unwrap(EnvVar(e, TOOLSHIM_VAR))) = <<"t", "r", "u", "e">>

\* env::var("GOOSE_TEMPERATURE").ok().and_then(|val| val.parse::<f32>().ok())
EnvTemperature(e) ==
    IF IsSome(EnvVar(e, TEMPERATURE_VAR))
    THEN ParseF32(Unwrap(EnvVar(e, TEMPERATURE_VAR)))
    ELSE None

\* returns the ModelConfig and the state of the lazy table afterwards
NewWithContextEnv(model_name, context_env_var, e, tbl, map) ==
    LET r == GetContextLimitWithEnvOverride(model_name, context_env_var, e, tbl, map)
    IN  [config |-> [model_name |-> model_name,
                     context_limit |-> r.limit,
                     temperature |-> EnvTemperature(e),
                     max_tokens |-> None,
                     toolshim |-> ToolshimFlag(e),
                     toolshim_model |-> EnvVar(e, TOOLSHIM_MODEL_VAR)],
         table |-> r.table]

New(model_name, e, tbl, map) == NewWithContextEnv(model_name, None, e, tbl, map)

GetAllModelLimits(map) ==
    [i \in 1..Len(map) |->
        [pattern |-> map[i].pattern, context_limit |-> map[i].limit]]

\* a present limit is ignored once a limit is stored
WithContextLimitKeepFirst(c, limit) ==
    IF IsSome(limit) /\ ~IsSome(c.context_limit)
    THEN [c EXCEPT !.context_limit = limit]
    ELSE c

WithContextLimit(c, limit) ==
    IF IsSome(limit) THEN [c EXCEPT !.context_limit = limit] ELSE c

\* None is passed through, as with_context_limit does
WithTemperatureKeepOnNone(c, temp) ==
    IF IsSome(temp) THEN [c EXCEPT !.temperature = temp] ELSE c

WithTemperature(c, temp) == [c EXCEPT !.temperature = temp]
WithMaxTokens(c, tokens) == [c EXCEPT !.max_tokens = tokens]
WithToolshim(c, toolshim) == [c EXCEPT !.toolshim = toolshim]
WithToolshimModel(c, model) == [c EXCEPT !.toolshim_model = model]

\* the accessor looks GOOSE_CONTEXT_LIMIT up again on every read
ContextLimitRereadsEnv(c) ==
    IF IsSome(EnvUsize(env, CONTEXT_VAR)) THEN Unwrap(EnvUsize(env, CONTEXT_VAR))
    ELSE IF IsSome(c.context_limit) THEN Unwrap(c.context_limit)
    ELSE DEFAULT_CONTEXT_LIMIT

\* self.context_limit.unwrap_or(DEFAULT_CONTEXT_LIMIT)
ContextLimit(c) ==
    IF IsSome(c.context_limit) THEN Unwrap(c.context_limit)
    ELSE DEFAULT_CONTEXT_LIMIT

-----------------------------------------------------------------------------
(* State.                                                                  *)
(*   env    the process environment: variable name -> Option<String>       *)
(*   table  the Lazy MODEL_SPECIFIC_LIMITS: None until first accessed,     *)
(*          then Some(the entries in the map's iteration order)            *)
(*   cfg    the caller's ModelConfig, None before the first construction   *)
(*   last   the last call made: its name and its argument                  *)
(*   ret    what the last call returned, for context_limit() and           *)
(*          get_all_model_limits(); None otherwise                         *)
(*   since  Some(v) while cfg has only been read, passed through           *)
(*          with_context_limit(None), or left alone since its              *)
(*          construction, v being context_limit() right after it           *)
(*   first  a configuration constructed earlier under the present state of *)
(*          the environment and retained by the caller: its arguments and  *)
(*          its resolved limit; forgotten when the environment changes     *)

Call(fn, arg) == [fn |-> fn, arg |-> arg]

Constructors == {"new", "new_with_context_env"}

Init ==
    /\ env = [name \in EnvVars |-> None]
    /\ table = None
    /\ cfg = None
    /\ last = Call("start", None)
    /\ ret = None
    /\ since = None
    /\ first = None

\* std::env::set_var / remove_var on one of the variables in names
SetEnv(names) ==
    \E name \in names :
        \E v \in {None} \cup {Some(t) : t \in EnvTexts(name)} :
            /\ env[name] # v
            /\ env' = [env EXCEPT ![name] = v]
            /\ last' = Call("set_var", None)
            /\ ret' = None
            /\ first' = None
            /\ UNCHANGED <<table, cfg, since>>

Construct(fn, model_name, context_env_var) ==
    \E map \in Deref(table) :
        LET r == IF fn = "new"
                 THEN New(model_name, env, table, map)
                 ELSE NewWithContextEnv(model_name, context_env_var, env, table, map)
        IN
        /\ cfg' = Some(r.config)
        /\ table' = r.table
        /\ last' = Call(fn, context_env_var)
        /\ ret' = None
        /\ since' = Some(ContextLimit(r.config))
        /\ UNCHANGED <<env, first>>

\* ModelConfig::new(model_name)
CallNew(names) ==
    \E model_name \in names : Construct("new", model_name, None)

\* ModelConfig::new_with_context_env(model_name, Some("GOOSE_LEAD_CONTEXT_LIMIT"))
CallNewWithContextEnv(names) ==
    \E model_name \in names :
        Construct("new_with_context_env", model_name, Some(LEAD_VAR))

\* cfg = cfg.with_context_limit(limit)
CallWithContextLimit ==
    /\ IsSome(cfg)
    /\ \E limit \in {None, Some(150000), Some(0)} :
        /\ cfg' = Some(WithContextLimit(Unwrap(cfg), limit))
        /\ last' = Call("with_context_limit", limit)
        /\ since' = IF IsSome(limit) THEN None ELSE since
    /\ ret' = None
    /\ UNCHANGED <<env, table, first>>

\* cfg.context_limit()
CallContextLimit ==
    /\ IsSome(cfg)
    /\ ret' = Some(ContextLimit(Unwrap(cfg)))
    /\ last' = Call("context_limit", None)
    /\ UNCHANGED <<env, table, cfg, since, first>>

\* ModelConfig::get_all_model_limits()
CallGetAllModelLimits ==
    \E map \in Deref(table) :
        /\ table' = Some(map)
        /\ ret' = Some(GetAllModelLimits(map))
        /\ last' = Call("get_all_model_limits", None)
        /\ UNCHANGED <<env, cfg, since, first>>

\* cfg = cfg.with_temperature(temp)
CallWithTemperature ==
    /\ IsSome(cfg)
    /\ \E temp \in {None, Some(F32(7, -1))} :
        /\ cfg' = Some(WithTemperature(Unwrap(cfg), temp))
        /\ last' = Call("with_temperature", temp)
    /\ ret' = None
    /\ UNCHANGED <<env, table, since, first>>

\* cfg = cfg.with_max_tokens(tokens)
CallWithMaxTokens ==
    /\ IsSome(cfg)
    /\ \E tokens \in {None, Some(1000)} :
        /\ cfg' = Some(WithMaxTokens(Unwrap(cfg), tokens))
        /\ last' = Call("with_max_tokens", tokens)
    /\ ret' = None
    /\ UNCHANGED <<env, table, since, first>>

\* cfg = cfg.with_toolshim(toolshim)
CallWithToolshim ==
    /\ IsSome(cfg)
    /\ \E toolshim \in BOOLEAN :
        /\ cfg' = Some(WithToolshim(Unwrap(cfg), toolshim))
        /\ last' = Call("with_toolshim", toolshim)
    /\ ret' = None
    /\ UNCHANGED <<env, table, since, first>>

\* cfg = cfg.with_toolshim_model(model)
CallWithToolshimModel ==
    /\ IsSome(cfg)
    /\ \E model \in {None, Some(<<"m", "i", "s", "t", "r", "a", "l", "-", "n", "e", "m", "o">>)} :
        /\ cfg' = Some(WithToolshimModel(Unwrap(cfg), model))
        /\ last' = Call("with_toolshim_model", model)
    /\ ret' = None
    /\ UNCHANGED <<env, table, since, first>>

\* the caller retains the configuration just constructed
Retain ==
    /\ last.fn \in Constructors
    /\ first = None
    /\ first' = Some([model_name |-> Unwrap(cfg).model_name,
                      context_env_var |-> last.arg,
                      context_limit |-> Unwrap(cfg).context_limit])
    /\ last' = Call("retain", None)
    /\ UNCHANGED <<env, table, cfg, ret, since>>

\* context-limit resolution: the two context variables, construction, the
\* context-limit overlay, the accessor, the enumeration
Next ==
    \/ SetEnv(ContextVars)
    \/ CallNew(Names)
    \/ CallNewWithContextEnv(Names)
    \/ CallWithContextLimit
    \/ CallContextLimit
    \/ CallGetAllModelLimits

Spec == Init /\ [][Next]_vars

\* two constructions under one state of the environment
NextTwice ==
    \/ SetEnv(ContextVars)
    \/ CallNew(Names)
    \/ CallNewWithContextEnv(Names)
    \/ CallGetAllModelLimits
    \/ Retain

SpecTwice == Init /\ [][NextTwice]_vars

\* construction under the context variables and GOOSE_TEMPERATURE
NextEnv ==
    \/ SetEnv(ContextVars \cup {TEMPERATURE_VAR})
    \/ CallNew(Prefix(ModelNames, 3))
    \/ CallNewWithContextEnv(Prefix(ModelNames, 3))

SpecEnv == Init /\ [][NextEnv]_vars

\* the secondary fields: their variables, construction, their overlays
NextFields ==
    \/ SetEnv(SecondaryVars)
    \/ CallNew(Prefix(ModelNames, 1))
    \/ CallWithTemperature
    \/ CallWithMaxTokens
    \/ CallWithToolshim
    \/ CallWithToolshimModel

SpecFields == Init /\ [][NextFields]_vars

-----------------------------------------------------------------------------
(* Properties.                                                             *)

\* the configuration held
Config == Unwrap(cfg)

\* the last call constructed cfg: env is the environment it was built under
Fresh == last.fn \in Constructors

\* the text held by a variable, when the construction consulted it
Consulted(name) ==
    IF name = LEAD_VAR /\ ~IsSome(last.arg) THEN None ELSE env[name]

ParsesUsize(v) == IsSome(v) /\ IsSome(ParseUsize(Unwrap(v)))

\* C1: after a construction, if the custom variable was given, is set and
\* parses as an unsigned integer, the stored limit is its value, whatever
\* GOOSE_CONTEXT_LIMIT holds and whatever the model name matches; otherwise,
\* if GOOSE_CONTEXT_LIMIT is set and parses, the stored limit is its value.
C1_EnvPrecedence ==
    Fresh =>
        IF ParsesUsize(Consulted(LEAD_VAR))
        THEN /\ Config.context_limit = ParseUsize(Unwrap(env[LEAD_VAR]))
             /\ ContextLimit(Config) = Unwrap(ParseUsize(Unwrap(env[LEAD_VAR])))
        ELSE ParsesUsize(env[CONTEXT_VAR]) =>
             /\ Config.context_limit = ParseUsize(Unwrap(env[CONTEXT_VAR]))
             /\ ContextLimit(Config) = Unwrap(ParseUsize(Unwrap(env[CONTEXT_VAR])))

C1_Witness ==
    /\ Fresh
    /\ last.arg = Some(LEAD_VAR)
    /\ env[LEAD_VAR] = Some(<<"3", "0", "0", "0", "0", "0">>)
    /\ env[CONTEXT_VAR] = Some(<<"2", "5", "0", "0", "0", "0">>)
    /\ Config.model_name = <<"c", "l", "a", "u", "d", "e", "-", "3", "-", "o", "p", "u", "s">>
    /\ Config.context_limit = Some(300000)

\* the patterns of the table that model_name contains, as table indices
Contained(model_name) == Hits(model_name, MODEL_SPECIFIC_LIMITS)

NoContextEnv == env[LEAD_VAR] = None /\ env[CONTEXT_VAR] = None

\* C2, as claimed: with neither context variable set, context_limit() of the
\* constructed configuration equals the table limit of every pattern the
\* model name contains.
C2_EveryContainedPattern ==
    (Fresh /\ NoContextEnv) =>
        \A i \in Contained(Config.model_name) :
            ContextLimit(Config) = MODEL_SPECIFIC_LIMITS[i].limit

\* C2, amended: with neither context variable set and a model name that
\* contains some pattern, context_limit() of the constructed configuration is
\* the table limit of the pattern that comes first, in the iteration order of
\* the initialised table, among those the name contains.
C2_FirstContainedPattern ==
    (Fresh /\ NoContextEnv /\ Contained(Config.model_name) # {}) =>
        /\ IsSome(table)
        /\ \E i \in 1..Len(Unwrap(table)) :
            /\ Contains(Config.model_name, Unwrap(table)[i].pattern)
            /\ Config.context_limit = Some(Unwrap(table)[i].limit)
            /\ ContextLimit(Config) = Unwrap(table)[i].limit
            /\ \A j \in 1..(i - 1) :
                ~Contains(Config.model_name, Unwrap(table)[j].pattern)

C2_Witness ==
    /\ Fresh
    /\ NoContextEnv
    /\ Config.model_name = <<"g", "r", "o", "k", "-", "4">>
    /\ Config.context_limit = Some(131072)

\* the text is an optional "+" and then one or more "0"
IsZeroText(v) ==
    /\ IsSome(v)
    /\ LET t == Unwrap(v)
           d == IF t # << >> /\ Head(t) = "+" THEN Tail(t) ELSE t
       IN  d # << >> /\ \A i \in 1..Len(d) : d[i] = "0"

\* C3, as claimed: the limit stored by a construction is None or strictly
\* positive.
C3_NeverZero ==
    Fresh => (Config.context_limit = None \/ Unwrap(Config.context_limit) > 0)

\* C3, amended: the limit stored by a construction is None or a non-negative
\* integer, and it is Some(0) exactly when the context variable that wins the
\* precedence chain holds a text denoting zero.
C3_ZeroOnlyFromEnv ==
    Fresh =>
        /\ Config.context_limit = None \/ Unwrap(Config.context_limit) >= 0
        /\ Config.context_limit = Some(0) <=>
            \/ IsZeroText(Consulted(LEAD_VAR))
            \/ ~ParsesUsize(Consulted(LEAD_VAR)) /\ IsZeroText(env[CONTEXT_VAR])

C3_Witness ==
    /\ Fresh
    /\ env[CONTEXT_VAR] = Some(<<"0">>)
    /\ ~ParsesUsize(Consulted(LEAD_VAR))
    /\ Config.model_name = <<"c", "l", "a", "u", "d", "e", "-", "3", "-", "o", "p", "u", "s">>
    /\ Config.context_limit = Some(0)

\* the text fails to parse for the variable that holds it
Malformed(name, v) ==
    /\ IsSome(v)
    /\ IF name = TEMPERATURE_VAR THEN ParseF32(Unwrap(v)) = None
       ELSE ParseUsize(Unwrap(v)) = None

\* C4: after a construction, for each of the custom variable,
\* GOOSE_CONTEXT_LIMIT and GOOSE_TEMPERATURE that holds a text failing to
\* parse, the configuration is the one the same construction yields with that
\* variable unset; and the texts "notanum" and "" give no temperature.
C4_MalformedAsUnset ==
    Fresh =>
        /\ \A name \in {LEAD_VAR, CONTEXT_VAR, TEMPERATURE_VAR} :
            Malformed(name, env[name]) =>
                \A map \in Deref(table) :
                    NewWithContextEnv(Config.model_name, last.arg,
                                      [env EXCEPT ![name] = None],
                                      table, map).config = Config
        /\ env[TEMPERATURE_VAR] \in {Some(<<"n", "o", "t", "a", "n", "u", "m">>), Some(<<>>)} =>
            Config.temperature = None

C4_Witness ==
    /\ Fresh
    /\ last.arg = Some(LEAD_VAR)
    /\ env[LEAD_VAR] = Some(<<"i", "n", "v", "a", "l", "i", "d">>)
    /\ env[CONTEXT_VAR] = Some(<<>>)
    /\ env[TEMPERATURE_VAR] = Some(<<"n", "o", "t", "a", "n", "u", "m">>)
    /\ Config.model_name = <<"g", "r", "o", "k", "-", "4">>
    /\ Config.context_limit = Some(256000)
    /\ Config.temperature = None

\* C5: after the construction of a model name that contains no pattern, with
\* no context variable set, the stored limit is None and context_limit() is
\* 128000; a context_limit() call on a configuration without a stored limit
\* returns 128000, and the field is still None after it.
C5_UnknownNameDefault ==
    /\ (Fresh /\ NoContextEnv /\ Contained(Config.model_name) = {}) =>
        /\ Config.context_limit = None
        /\ ContextLimit(Config) = 128000
    /\ (last.fn = "context_limit" /\ Config.context_limit = None) =>
        ret = Some(128000)

C5_Witness ==
    /\ last.fn = "context_limit"
    /\ NoContextEnv
    /\ Config.model_name = <<>>
    /\ since = Some(128000)
    /\ ret = Some(128000)
    /\ Config.context_limit = None

\* C6: a with_context_limit(Some(v)) call stores Some(v), after which
\* context_limit() is v, whatever was stored before; a with_context_limit(None)
\* call leaves the stored limit as it was; no other field changes.
C6_WithContextLimit ==
    [][last'.fn = "with_context_limit" =>
        /\ IF IsSome(last'.arg)
           THEN /\ Unwrap(cfg').context_limit = last'.arg
                /\ ContextLimit(Unwrap(cfg')) = Unwrap(last'.arg)
           ELSE Unwrap(cfg').context_limit = Unwrap(cfg).context_limit
        /\ \A f \in {"model_name", "temperature", "max_tokens", "toolshim",
                     "toolshim_model"} : Unwrap(cfg')[f] = Unwrap(cfg)[f]]_vars

C6_Witness ==
    /\ last.fn = "with_context_limit"
    /\ last.arg = Some(150000)
    /\ Config.model_name = <<"c", "l", "a", "u", "d", "e", "-", "3", "-", "o", "p", "u", "s">>
    /\ env[CONTEXT_VAR] = Some(<<"2", "5", "0", "0", "0", "0">>)
    /\ Config.context_limit = Some(150000)

\* C7: a construction made with the arguments of a retained earlier
\* construction, under the same state of the environment, resolves the same
\* context limit.
C7_SameInputsSameLimit ==
    (/\ Fresh
     /\ IsSome(first)
     /\ Unwrap(first).model_name = Config.model_name
     /\ Unwrap(first).context_env_var = last.arg) =>
        Config.context_limit = Unwrap(first).context_limit

C7_Witness ==
    /\ Fresh
    /\ IsSome(first)
    /\ NoContextEnv
    /\ Config.model_name = <<"g", "r", "o", "k", "-", "4">>
    /\ Unwrap(first).model_name = <<"g", "r", "o", "k", "-", "4">>
    /\ Unwrap(first).context_env_var = last.arg
    /\ Config.context_limit = Some(256000)

\* the text is "1", or the four letters t, r, u, e in either case
IsTruthyText(v) ==
    /\ IsSome(v)
    /\ \/ Unwrap(v) = <<"1">>
       \/ /\ Len(Unwrap(v)) = 4
          /\ Unwrap(v)[1] \in {"t", "T"}
          /\ Unwrap(v)[2] \in {"r", "R"}
          /\ Unwrap(v)[3] \in {"u", "U"}
          /\ Unwrap(v)[4] \in {"e", "E"}

\* C8: the toolshim field of a constructed configuration is true exactly when
\* GOOSE_TOOLSHIM is set to "1" or to a text whose lower-case form is "true".
C8_Toolshim ==
    Fresh => (Config.toolshim <=> IsTruthyText(env[TOOLSHIM_VAR]))

C8_Witness ==
    /\ Fresh
    /\ env[TOOLSHIM_VAR] = Some(<<"T", "R", "U", "E">>)
    /\ Config.toolshim = TRUE

\* C9: while a configuration has, since its construction, only been read,
\* passed through with_context_limit(None) or left alone under changes of
\* the environment and calls of get_all_model_limits(), every context_limit()
\* call returns what context_limit() was right after the construction.
C9_AccessorStable ==
    (last.fn = "context_limit" /\ IsSome(since)) => ret = since

C9_Witness ==
    /\ last.fn = "context_limit"
    /\ Config.model_name = <<"c", "l", "a", "u", "d", "e", "-", "3", "-", "o", "p", "u", "s">>
    /\ env[CONTEXT_VAR] = Some(<<"2", "5", "0", "0", "0", "0">>)
    /\ since = Some(200000)
    /\ ret = Some(200000)

SecondaryOverlays ==
    {"with_temperature", "with_max_tokens", "with_toolshim", "with_toolshim_model"}

\* the field an overlay sets
FieldOf(fn) ==
    CASE fn = "with_temperature" -> "temperature"
      [] fn = "with_max_tokens" -> "max_tokens"
      [] fn = "with_toolshim" -> "toolshim"
      [] fn = "with_toolshim_model" -> "toolshim_model"

\* C10: a with_temperature, with_max_tokens, with_toolshim or
\* with_toolshim_model call sets its field to its argument, None included, and
\* leaves every other field as it was.
C10_SecondaryOverlays ==
    [][last'.fn \in SecondaryOverlays =>
        /\ Unwrap(cfg')[FieldOf(last'.fn)] = last'.arg
        /\ \A f \in {"model_name", "context_limit", "temperature", "max_tokens",
                     "toolshim", "toolshim_model"} \ {FieldOf(last'.fn)} :
            Unwrap(cfg')[f] = Unwrap(cfg)[f]]_vars

C10_Witness ==
    /\ last.fn = "with_temperature"
    /\ last.arg = None
    /\ env[TEMPERATURE_VAR] = Some(<<"0", ".", "1", "2", "8">>)
    /\ Config.temperature = None
    /\ Config.max_tokens = Some(1000)
    /\ Config.toolshim_model = Some(<<"m", "i", "s", "t", "r", "a", "l", "-", "n", "e", "m", "o">>)

=============================================================================
